---------------------------- MODULE Spec2Model ----------------------------
(***************************************************************************)
(* A model of the tpacloudbox file manager (src/server.js): the path       *)
(* resolver safePath, the unique-name allocator getUniquePath, formatSize, *)
(* the admin gate, the HTTP handlers over a filesystem tree, two racing    *)
(* uploads, recursive search, and the browser's upload queue.              *)
(*                                                                         *)
(* Strings whose characters matter (paths, names, queries) are sequences   *)
(* of one-character strings, so that prefix tests, separators, extensions  *)
(* and percent-escapes are computed character by character as node does.   *)
(***************************************************************************)
EXTENDS Integers, Sequences, FiniteSets, TLC

VARIABLES
    userPath, resolved,                     \* safePath: its argument and its outcome
    fs, req, resp, work, handled,           \* the server: tree, last request, its response
    up, overlap,                            \* two upload requests in flight
    bytes, formatted,                       \* formatSize: its argument and its result
    q, results,                             \* search: the query and the response
    queueFiles, dom, clientIsAdmin, btnDisabled, inflight, dropped, discarded, sentOk

vars == << userPath, resolved, fs, req, resp, work, handled, up, overlap,
           bytes, formatted, q, results,
           queueFiles, dom, clientIsAdmin, btnDisabled, inflight, dropped,
           discarded, sentOk >>

pathVars   == << userPath, resolved >>
serverVars == << req, resp, work, handled >>
raceVars   == << up, overlap >>
formatVars == << bytes, formatted >>
searchVars == << q, results >>
queueVars  == << queueFiles, dom, clientIsAdmin, btnDisabled, inflight, dropped,
                 discarded, sentOk >>

None == "none"

\* what the result variables hold before the operation has run
NotResolved  == [ok |-> FALSE, pending |-> TRUE]
NotFormatted == [pending |-> TRUE]
NoResults    == [done |-> FALSE, entries |-> {}]
NoFetch      == [active |-> FALSE]

-----------------------------------------------------------------------------
(* Character strings *)

Last(s) == s[Len(s)]
Front(s) == SubSeq(s, 1, Len(s) - 1)

StartsWith(s, p) == Len(p) <= Len(s) /\ SubSeq(s, 1, Len(p)) = p

\* position of the last occurrence of character c in s, 0 when there is none
LastIndexOf(s, c) ==
    LET hits == {i \in 1..Len(s) : s[i] = c}
    IN  IF hits = {} THEN 0 ELSE CHOOSE i \in hits : \A j \in hits : j <= i

RECURSIVE SplitFrom(_, _)
SplitFrom(s, cur) ==
    IF s = <<>> THEN <<cur>>
    ELSE IF Head(s) = "/" THEN <<cur>> \o SplitFrom(Tail(s), <<>>)
    ELSE SplitFrom(Tail(s), Append(cur, Head(s)))

\* the segments of s between "/" separators
Split(s) == SplitFrom(s, <<>>)

RECURSIVE JoinSegs(_)
JoinSegs(segs) ==
    IF segs = <<>> THEN <<>>
    ELSE IF Len(segs) = 1 THEN segs[1]
    ELSE segs[1] \o <<"/">> \o JoinSegs(Tail(segs))

RECURSIVE Flatten(_)
Flatten(ss) == IF ss = <<>> THEN <<>> ELSE Head(ss) \o Flatten(Tail(ss))

SeqsUpTo(S, n) == UNION {[1..k -> S] : k \in 0..n}

-----------------------------------------------------------------------------
(* node's path module, POSIX flavour (the server runs path.join, dirname,  *)
(* basename, extname and parse on its host's convention)                   *)

DotDot == <<".", ".">>

RECURSIVE normalizeString(_, _, _)
normalizeString(segs, acc, allowAboveRoot) ==
    IF segs = <<>> THEN acc
    ELSE LET g == Head(segs) IN
         IF g = <<>> \/ g = <<".">> THEN normalizeString(Tail(segs), acc, allowAboveRoot)
         ELSE IF g = DotDot THEN
              IF acc # <<>> /\ Last(acc) # DotDot
                  THEN normalizeString(Tail(segs), Front(acc), allowAboveRoot)
              ELSE IF allowAboveRoot
                  THEN normalizeString(Tail(segs), Append(acc, g), allowAboveRoot)
              ELSE normalizeString(Tail(segs), acc, allowAboveRoot)
         ELSE normalizeString(Tail(segs), Append(acc, g), allowAboveRoot)

normalize(p) ==
    IF p = <<>> THEN <<".">>
    ELSE LET isAbsolute == p[1] = "/"
             trailingSeparator == Last(p) = "/"
             body == JoinSegs(normalizeString(Split(p), <<>>, ~isAbsolute))
         IN  IF body = <<>>
                 THEN IF isAbsolute THEN <<"/">>
                      ELSE IF trailingSeparator THEN <<".", "/">> ELSE <<".">>
             ELSE LET t == IF trailingSeparator THEN body \o <<"/">> ELSE body
                  IN  IF isAbsolute THEN <<"/">> \o t ELSE t

\* path.join(a, b): the non-empty arguments joined by "/", then normalized
pathJoin(a, b) ==
    LET joined == IF a = <<>> THEN b
                  ELSE IF b = <<>> THEN a
                  ELSE a \o <<"/">> \o b
    IN  IF joined = <<>> THEN <<".">> ELSE normalize(joined)

\* s without its trailing separators (a lone "/" is kept)
RECURSIVE StripTrailing(_)
StripTrailing(s) ==
    IF Len(s) > 1 /\ Last(s) = "/" THEN StripTrailing(Front(s)) ELSE s

dirname(p) ==
    IF p = <<>> THEN <<".">>
    ELSE LET s == StripTrailing(p)
             j == LastIndexOf(s, "/")
         IN  IF j <= 1 THEN (IF p[1] = "/" THEN <<"/">> ELSE <<".">>)
             ELSE SubSeq(s, 1, j - 1)

basename(p) ==
    LET s == StripTrailing(p)
        j == LastIndexOf(s, "/")
    IN  IF s = <<"/">> THEN <<>> ELSE SubSeq(s, j + 1, Len(s))

extname(p) ==
    LET b == basename(p)
        j == LastIndexOf(b, ".")
    IN  IF j = 0 \/ j = 1 \/ b = DotDot THEN <<>> ELSE SubSeq(b, j, Len(b))

\* path.parse(p): dir, base, ext and name (base without ext)
pathParse(p) ==
    LET s == StripTrailing(p)
        j == LastIndexOf(s, "/")
        b == basename(p)
        e == extname(p)
    IN  [dir  |-> IF j = 0 THEN <<>> ELSE IF j = 1 THEN <<"/">> ELSE SubSeq(s, 1, j - 1),
         base |-> b,
         ext  |-> e,
         name |-> SubSeq(b, 1, Len(b) - Len(e))]

-----------------------------------------------------------------------------
(* safePath (src/server.js:30-35) *)

\* the configured root, path.resolve(__dirname, config.uploadDir)
baseDir == <<"/", "d">>

\* the character a two-digit escape %h1h2 stands for, None when the byte is
\* not a complete UTF-8 sequence on its own (decodeURIComponent throws)
PercentByte(h1, h2) ==
    IF h1 # "2" THEN None
    ELSE CASE h2 = "E" -> "."
           [] h2 = "F" -> "/"
           [] h2 = "d" -> "-"
           [] h2 = "2" -> "\""
           [] OTHER -> None

RECURSIVE decodeURIComponent(_)
\* [ok |-> TRUE, s |-> decoded] or [ok |-> FALSE] for a URIError
decodeURIComponent(s) ==
    IF s = <<>> THEN [ok |-> TRUE, s |-> <<>>]
    ELSE IF Head(s) # "%" THEN
         LET r == decodeURIComponent(Tail(s))
         IN  IF r.ok THEN [ok |-> TRUE, s |-> <<Head(s)>> \o r.s] ELSE r
    ELSE IF Len(s) < 3 \/ PercentByte(s[2], s[3]) = None THEN [ok |-> FALSE]
    ELSE LET r == decodeURIComponent(SubSeq(s, 4, Len(s)))
         IN  IF r.ok THEN [ok |-> TRUE, s |-> <<PercentByte(s[2], s[3])>> \o r.s] ELSE r

RECURSIVE StripLeadingSeparators(_)
\* .replace(/^[\/\\]+/, '')
StripLeadingSeparators(s) ==
    IF s # <<>> /\ Head(s) \in {"/", "\\"} THEN StripLeadingSeparators(Tail(s)) ELSE s

\* [ok |-> TRUE, path |-> targetPath], or [ok |-> FALSE] when it throws
safePath(p) ==
    LET dec == decodeURIComponent(p) IN
    IF ~dec.ok THEN [ok |-> FALSE]
    ELSE LET cleanUserPath == StripLeadingSeparators(dec.s)
             targetPath == pathJoin(baseDir, cleanUserPath)
         IN  IF ~StartsWith(targetPath, baseDir) THEN [ok |-> FALSE]
             ELSE [ok |-> TRUE, path |-> targetPath]

\* p is root itself or lies beneath it by whole path segments
Under(root, p) ==
    LET c == StripTrailing(p)
    IN  c = root \/ StartsWith(c, IF root = <<"/">> THEN root ELSE root \o <<"/">>)

-----------------------------------------------------------------------------
(* The filesystem the server works on: a function from the absolute paths  *)
(* that exist to [kind, data]; fs-extra's and node's calls as the handlers *)
(* use them.  Each returns ok (FALSE: it throws), the tree after it, and   *)
(* the paths it created, wrote or removed.                                 *)

Dir == [kind |-> "dir", data |-> ""]
File(d) == [kind |-> "file", data |-> d]

Canon(p) == StripTrailing(p)

\* fs.pathExists(p): a trailing separator asks for a directory
pathExists(F, p) ==
    LET c == Canon(p)
    IN  c \in DOMAIN F /\ (c # p => F[c].kind = "dir")

IsDir(F, p) == Canon(p) \in DOMAIN F /\ F[Canon(p)].kind = "dir"

\* p and its ancestors up to "/"
Lineage(p) ==
    {<<"/">>} \cup {SubSeq(p, 1, j - 1) : j \in {i \in 2..Len(p) : p[i] = "/"}} \cup {p}

Failed(F) == [ok |-> FALSE, fs |-> F, touched |-> {}]

\* fs.ensureDir / mkdirp: creates p and its missing ancestors, throws when
\* one of them exists as a file
ensureDir(F, p) ==
    LET c == Canon(p)
        missing == Lineage(c) \ DOMAIN F
    IN  IF \E x \in Lineage(c) \cap DOMAIN F : F[x].kind # "dir" THEN Failed(F)
        ELSE [ok |-> TRUE,
              fs |-> [x \in DOMAIN F \cup missing |-> IF x \in DOMAIN F THEN F[x] ELSE Dir],
              touched |-> missing]

\* fs.remove: rm -rf, silent when nothing is there
remove(F, p) ==
    LET c == Canon(p)
        gone == {x \in DOMAIN F : Under(c, x)}
    IN  [ok |-> TRUE, fs |-> [x \in DOMAIN F \ gone |-> F[x]], touched |-> gone]

\* fs.move(src, dest) without overwrite: stats src, refuses a destination
\* inside src, makes dest's parent directories, refuses an existing dest,
\* then renames the whole subtree
move(F, src, dest) ==
    LET s == Canon(src)
        d == Canon(dest)
        parent == dirname(d)
    IN  IF ~pathExists(F, src) THEN Failed(F)
        ELSE IF Under(s, d) THEN Failed(F)
        ELSE LET m == IF parent = <<"/">> THEN [ok |-> TRUE, fs |-> F, touched |-> {}]
                      ELSE ensureDir(F, parent)
             IN  IF ~m.ok THEN Failed(F)
                 ELSE IF pathExists(m.fs, d) THEN Failed(F)
                 ELSE LET moved == {x \in DOMAIN m.fs : Under(s, x)}
                          to(x) == d \o SubSeq(x, Len(s) + 1, Len(x))
                          landed == {to(x) : x \in moved}
                      IN  [ok |-> TRUE,
                           fs |-> [y \in (DOMAIN m.fs \ moved) \cup landed |->
                                     IF y \in landed
                                         THEN m.fs[CHOOSE x \in moved : to(x) = y]
                                         ELSE m.fs[y]],
                           touched |-> m.touched \cup moved \cup landed]

\* fs.writeFile(p, data): creates or overwrites the file p; throws when the
\* parent is no directory or p is a directory
writeFile(F, p, data) ==
    IF Canon(p) # p \/ ~IsDir(F, dirname(p)) \/ IsDir(F, p) THEN Failed(F)
    ELSE [ok |-> TRUE,
          fs |-> [x \in DOMAIN F \cup {p} |-> IF x = p THEN File(data) ELSE F[x]],
          touched |-> {p}]

\* the names fs.readdir(p) returns
readdir(F, p) ==
    LET c == Canon(p)
    IN  {basename(x) : x \in {y \in DOMAIN F : y # <<"/">> /\ dirname(y) = c}}

-----------------------------------------------------------------------------
(* getUniquePath (src/server.js:37-46) *)

DigitChar(n) == <<"0", "1", "2", "3", "4", "5", "6", "7", "8", "9">>[n + 1]

RECURSIVE Decimal(_)
\* `${counter}`
Decimal(n) == IF n < 10 THEN <<DigitChar(n)>> ELSE Decimal(n \div 10) \o <<DigitChar(n % 10)>>

\* path.join(dir, `${name} (${counter})${ext}`)
Candidate(parsed, counter) ==
    pathJoin(parsed.dir, parsed.name \o <<" ", "(">> \o Decimal(counter) \o <<")">> \o parsed.ext)

RECURSIVE Probe(_, _, _, _)
\* the while loop: one fs.pathExists per turn
Probe(F, parsed, finalPath, counter) ==
    IF pathExists(F, finalPath)
        THEN Probe(F, parsed, Candidate(parsed, counter), counter + 1)
        ELSE finalPath

\* the allocator with its counter started at 0
getUniquePathFromZero(F, targetPath) == Probe(F, pathParse(targetPath), targetPath, 0)

getUniquePath(F, targetPath) == Probe(F, pathParse(targetPath), targetPath, 1)

-----------------------------------------------------------------------------
(* The admin gate (src/server.js:56-64).  An address is a sequence of      *)
(* tokens, so that the IPv4-mapped prefix "::ffff:" is something replace   *)
(* removes.                                                                *)

\* config.adminIps
adminIps == {<<"10.0.0.5">>}

\* config.lockedFolders
lockedFolders == {[folderName |-> <<"s">>, pin |-> "1"]}

RECURSIVE RemoveFirst(_, _)
\* ip.replace('::ffff:', ''): the first occurrence only
RemoveFirst(ip, tok) ==
    IF ip = <<>> THEN <<>>
    ELSE IF Head(ip) = tok THEN Tail(ip)
    ELSE <<Head(ip)>> \o RemoveFirst(Tail(ip), tok)

checkIsAdmin(ip) ==
    LET clientIp == RemoveFirst(ip, "::ffff:")
    IN  clientIp \in adminIps \/ clientIp = <<"127.0.0.1">> \/ clientIp = <<"::1">>

\* a gate that lets every caller through
isAdminOpen(ip) == TRUE

\* the middleware: TRUE when it calls next(), FALSE when it answers 403
isAdmin(ip) == checkIsAdmin(ip)

-----------------------------------------------------------------------------
(* Requests, responses and the handlers (src/server.js:69-151).  A handler *)
(* is an operator from the tree and the request to the outcome: the tree   *)
(* after it, the response, and a record of the work it did (safePath       *)
(* calls, getUniquePath calls, paths it created, wrote, moved or removed). *)

Request(op, ip, path, arg, pin, names, files) ==
    [op |-> op, ip |-> ip, path |-> path, arg |-> arg, pin |-> pin,
     names |-> names, files |-> files]

NoRequest == Request("none", <<>>, <<>>, <<>>, None, <<>>, <<>>)

Response(status) == [status |-> status, locked |-> FALSE, success |-> FALSE, entries |-> {}]

NoResponse == Response(0)
Forbidden  == Response(403)
ServerError == Response(500)
Success    == [Response(200) EXCEPT !.success = TRUE]

NoWork == [resolves |-> 0, allocs |-> <<>>, touched |-> {}]

Outcome(F, r, w) == [fs |-> F, resp |-> r, work |-> w]

Upper == <<"A", "B", "C", "D", "E", "F", "G", "H", "I", "J", "K", "L", "M",
           "N", "O", "P", "Q", "R", "S", "T", "U", "V", "W", "X", "Y", "Z">>
Lower == <<"a", "b", "c", "d", "e", "f", "g", "h", "i", "j", "k", "l", "m",
           "n", "o", "p", "q", "r", "s", "t", "u", "v", "w", "x", "y", "z">>

LowerOf(c) == IF \E i \in 1..26 : Upper[i] = c
              THEN Lower[CHOOSE i \in 1..26 : Upper[i] = c] ELSE c

toLowerCase(s) == [i \in 1..Len(s) |-> LowerOf(s[i])]

\* .replace(/\\/g, '/')
SlashForm(s) == [i \in 1..Len(s) |-> IF s[i] = "\\" THEN "/" ELSE s[i]]

\* one record of the listing (size and date, which no claim reads, left out)
Entry(F, target, relPath, name) ==
    [name     |-> name,
     isFolder |-> IsDir(F, pathJoin(target, name)),
     path     |-> SlashForm(pathJoin(relPath, name)),
     ext      |-> toLowerCase(extname(name))]

\* GET /api/files
ListFiles(F, r) ==
    LET relPath == r.path
        t == safePath(relPath)
        w == [NoWork EXCEPT !.resolves = 1]
        locked == {f \in lockedFolders : f.folderName = relPath}
    IN  IF ~t.ok THEN Outcome(F, ServerError, w)
        ELSE IF locked # {} /\ r.pin # (CHOOSE f \in locked : TRUE).pin
            THEN Outcome(F, [Response(401) EXCEPT !.locked = TRUE], w)
        ELSE IF ~IsDir(F, t.path) THEN Outcome(F, ServerError, w)
        ELSE Outcome(F, [Response(200) EXCEPT
                           !.entries = {Entry(F, t.path, relPath, n) : n \in readdir(F, t.path)}], w)

\* PUT /api/rename
RenameItem(F, r) ==
    LET oldFull == safePath(r.path)
        w == [NoWork EXCEPT !.resolves = 1]
    IN  IF ~isAdmin(r.ip) THEN Outcome(F, Forbidden, NoWork)
        ELSE IF ~oldFull.ok THEN Outcome(F, ServerError, w)
        ELSE LET newFull == pathJoin(dirname(oldFull.path), r.arg)
                 m == move(F, oldFull.path, newFull)
             IN  IF ~m.ok THEN Outcome(F, ServerError, w)
                 ELSE Outcome(m.fs, Success, [w EXCEPT !.touched = m.touched])

\* DELETE /api/delete
DeleteItem(F, r) ==
    LET t == safePath(r.path)
        w == [NoWork EXCEPT !.resolves = 1]
    IN  IF ~isAdmin(r.ip) THEN Outcome(F, Forbidden, NoWork)
        ELSE IF ~t.ok THEN Outcome(F, ServerError, w)
        ELSE LET m == remove(F, t.path)
             IN  Outcome(m.fs, Success, [w EXCEPT !.touched = m.touched])

Alloc(F, target, result) == [target |-> target, result |-> result, at |-> DOMAIN F]

\* PUT /api/move
MoveItem(F, r) ==
    LET srcFull == safePath(r.path)
        dest == safePath(r.arg)
    IN  IF ~isAdmin(r.ip) THEN Outcome(F, Forbidden, NoWork)
        ELSE IF ~srcFull.ok THEN Outcome(F, ServerError, [NoWork EXCEPT !.resolves = 1])
        ELSE IF ~dest.ok THEN Outcome(F, ServerError, [NoWork EXCEPT !.resolves = 2])
        ELSE LET target == pathJoin(dest.path, basename(r.path))
                 destFull == getUniquePath(F, target)
                 w == [NoWork EXCEPT !.resolves = 2,
                                     !.allocs = <<Alloc(F, target, destFull)>>]
                 m == move(F, srcFull.path, destFull)
             IN  IF ~m.ok THEN Outcome(F, ServerError, w)
                 ELSE Outcome(m.fs, Success, [w EXCEPT !.touched = m.touched])

\* Buffer.from(name, 'latin1').toString('utf8'): the bytes of a Latin-1
\* string read as UTF-8.  ASCII is unchanged; the Latin-1 pair C3 A9 is the
\* UTF-8 encoding of U+00E9; a lead or continuation byte on its own decodes
\* to the replacement character.
RECURSIVE Latin1ToUtf8(_)
Latin1ToUtf8(s) ==
    IF s = <<>> THEN <<>>
    ELSE IF Head(s) = "<C3>" THEN
         IF Len(s) >= 2 /\ s[2] = "<A9>"
             THEN <<"<E9>">> \o Latin1ToUtf8(SubSeq(s, 3, Len(s)))
             ELSE <<"<FFFD>">> \o Latin1ToUtf8(Tail(s))
    ELSE IF Head(s) = "<A9>" THEN <<"<FFFD>">> \o Latin1ToUtf8(Tail(s))
    ELSE <<Head(s)>> \o Latin1ToUtf8(Tail(s))

\* the name an uploaded file is stored under (src/server.js:132-134)
UploadName(customNames, file, i) ==
    LET originalName == Latin1ToUtf8(file.originalname)
        newName == IF i <= Len(customNames) /\ customNames[i] # <<>>
                   THEN customNames[i] ELSE originalName
    IN  IF extname(newName) = <<>> THEN newName \o extname(originalName) ELSE newName

RECURSIVE UploadLoop(_, _, _, _, _)
\* the for loop of POST /api/upload from file i on; what earlier turns wrote
\* stays written when a later turn throws
UploadLoop(F, targetFolder, r, i, w) ==
    IF i > Len(r.files) THEN Outcome(F, Success, w)
    ELSE LET target == pathJoin(targetFolder, UploadName(r.names, r.files[i], i))
             finalPath == getUniquePath(F, target)
             w1 == [w EXCEPT !.allocs = Append(@, Alloc(F, target, finalPath))]
             m == writeFile(F, finalPath, r.files[i].buffer)
         IN  IF ~m.ok THEN Outcome(F, ServerError, w1)
             ELSE UploadLoop(m.fs, targetFolder, r, i + 1,
                             [w1 EXCEPT !.touched = @ \cup m.touched])

\* POST /api/upload
UploadFiles(F, r) ==
    LET targetFolder == safePath(r.path)
        w == [NoWork EXCEPT !.resolves = 1]
    IN  IF ~isAdmin(r.ip) THEN Outcome(F, Forbidden, NoWork)
        ELSE IF ~targetFolder.ok THEN Outcome(F, ServerError, w)
        ELSE UploadLoop(F, targetFolder.path, r, 1, w)

\* POST /api/mkdir
MakeDir(F, r) ==
    LET t == safePath(r.path)
        w == [NoWork EXCEPT !.resolves = 1]
    IN  IF ~isAdmin(r.ip) THEN Outcome(F, Forbidden, NoWork)
        ELSE IF ~t.ok THEN Outcome(F, ServerError, w)
        ELSE LET m == ensureDir(F, t.path)
             IN  IF ~m.ok THEN Outcome(F, ServerError, w)
                 ELSE Outcome(m.fs, Success, [w EXCEPT !.touched = m.touched])

-----------------------------------------------------------------------------
(* The server handling one request after another (no two in flight): the   *)
(* single-writer behaviour of the handlers.                                *)

MaxRequests == 2

MkTree(dirs, files) ==
    [x \in dirs \cup {f[1] : f \in files} |->
        IF x \in dirs THEN Dir ELSE File((CHOOSE f \in files : f[1] = x)[2])]

\* Root /d with a folder a, a locked folder s and a file; beside it the
\* sibling directory /d2, whose name has Root's name as a string prefix
Tree0 ==
    MkTree({<<"/">>, <<"/", "d">>, <<"/", "d", "/", "a">>, <<"/", "d", "/", "s">>, <<"/", "d", "2">>},
           {<<<<"/", "d", "/", "a", "/", "f", ".", "t">>, "x1">>, <<<<"/", "d", "/", "f", ".", "t">>, "x2">>, <<<<"/", "d", "/", "s", "/", "k">>, "x3">>,
            <<<<"/", "d", "2", "/", "v">>, "x4">>})

\* the same with two earlier copies of f.t in a
Tree1 ==
    MkTree({<<"/">>, <<"/", "d">>, <<"/", "d", "/", "a">>, <<"/", "d", "/", "s">>, <<"/", "d", "2">>},
           {<<<<"/", "d", "/", "a", "/", "f", ".", "t">>, "x1">>, <<<<"/", "d", "/", "f", ".", "t">>, "x2">>, <<<<"/", "d", "/", "s", "/", "k">>, "x3">>,
            <<<<"/", "d", "2", "/", "v">>, "x4">>, <<<<"/", "d", "/", "a", "/", "f", " ", "(", "1", ")", ".", "t">>, "x5">>, <<<<"/", "d", "/", "a", "/", "f", " ", "(", "2", ")", ".", "t">>, "x6">>})

InitTrees == {Tree0, Tree1}

Guest == <<"10.0.0.9">>
Ips == {Guest, <<"::ffff:", "10.0.0.5">>, <<"::1">>}
\* the callers of rename, move and upload: a guest and an allow-listed admin
Ips2 == {Guest, <<"::ffff:", "10.0.0.5">>}

\* path and pin of the listing requests (None: no pin sent)
ListInputs  == {<<<<>>, None>>, <<<<"x">>, None>>, <<<<".", ".", "/", "d", "2">>, None>>,
                <<<<"s">>, None>>, <<<<"s">>, "1">>, <<<<"s">>, "9">>,
                <<<<"s", "/">>, None>>, <<<<"s", "/">>, "1">>, <<<<"/", "s">>, None>>}
DeletePaths == {<<"a">>, <<"a", "/", "f", ".", "t">>, <<"x">>, <<".", ".", "/", "d", "2", "/", "v">>}
MkdirPaths  == {<<"n">>, <<"a", "/", "n", "/", "m">>, <<"f", ".", "t", "/", "n">>, <<".", ".", "/", "d", "2", "/", "n">>}
RenameOld   == {<<"f", ".", "t">>, <<"a">>, <<"x">>}
RenameNew   == {<<"g", ".", "t">>, <<"a">>, <<".", ".", "/", "x">>}
MoveSources == {<<"f", ".", "t">>, <<"a", "/", "f", ".", "t">>, <<"a">>, <<"a", "/", ".">>}
MoveDests   == {<<>>, <<"a">>, <<"n">>, <<"f", ".", "t">>, <<".", ".", "/", "d", "2">>}
UploadPaths == {<<"a">>, <<"x">>}

Upl(name, buffer) == [originalname |-> name, buffer |-> buffer]

UploadForms ==
    {[names |-> <<<<"f", ".", "t">>>>,          files |-> <<Upl(<<"f", ".", "t">>, "u1")>>],
     [names |-> <<<<"f", ".", "t">>, <<"f", ".", "t">>>>,   files |-> <<Upl(<<"f", ".", "t">>, "u1"), Upl(<<"f", ".", "t">>, "u2")>>],
     [names |-> <<<<"g">>>>,            files |-> <<Upl(<<"f", ".", "t">>, "u1")>>],
     [names |-> <<<<".", ".", "/", ".", ".", "/", "x">>>>,      files |-> <<Upl(<<"f", ".", "t">>, "u1")>>],
     [names |-> <<>>,               files |-> <<Upl(<<"<C3>", "<A9>", ".", "t">>, "u1")>>]}

IdlePath   == userPath = <<>> /\ resolved = NotResolved
IdleServer == req = NoRequest /\ resp = NoResponse /\ work = NoWork /\ handled = 0
IdleRace   == up = <<>> /\ overlap = FALSE
IdleFormat == bytes = <<>> /\ formatted = NotFormatted
IdleSearch == q = <<>> /\ results = NoResults
IdleQueue  == /\ queueFiles = <<>> /\ dom = <<>> /\ clientIsAdmin = FALSE
              /\ btnDisabled = FALSE /\ inflight = NoFetch /\ dropped = 0
              /\ discarded = {} /\ sentOk = {}

Init ==
    /\ fs \in InitTrees
    /\ IdleServer /\ IdlePath /\ IdleRace /\ IdleFormat /\ IdleSearch /\ IdleQueue

\* the server takes request r and finishes it with outcome out
Handle(r, out) ==
    /\ handled < MaxRequests
    /\ fs' = out.fs
    /\ req' = r
    /\ resp' = out.resp
    /\ work' = out.work
    /\ handled' = handled + 1
    /\ UNCHANGED << pathVars, raceVars, formatVars, searchVars, queueVars >>

List ==
    \E i \in ListInputs :
        LET r == Request("list", Guest, i[1], <<>>, i[2], <<>>, <<>>)
        IN  Handle(r, ListFiles(fs, r))

Rename ==
    \E ip \in Ips2, oldPath \in RenameOld, newName \in RenameNew :
        LET r == Request("rename", ip, oldPath, newName, None, <<>>, <<>>)
        IN  Handle(r, RenameItem(fs, r))

Delete ==
    \E ip \in Ips, path \in DeletePaths :
        LET r == Request("delete", ip, path, <<>>, None, <<>>, <<>>)
        IN  Handle(r, DeleteItem(fs, r))

Move ==
    \E ip \in Ips2, source \in MoveSources, destination \in MoveDests :
        LET r == Request("move", ip, source, destination, None, <<>>, <<>>)
        IN  Handle(r, MoveItem(fs, r))

Upload ==
    \E ip \in Ips2, path \in UploadPaths, u \in UploadForms :
        LET r == Request("upload", ip, path, <<>>, None, u.names, u.files)
        IN  Handle(r, UploadFiles(fs, r))

Mkdir ==
    \E ip \in Ips, path \in MkdirPaths :
        LET r == Request("mkdir", ip, path, <<>>, None, <<>>, <<>>)
        IN  Handle(r, MakeDir(fs, r))

Next == List \/ Rename \/ Delete \/ Move \/ Upload \/ Mkdir

Spec == Init /\ [][Next]_vars

-----------------------------------------------------------------------------
(* Properties of the sequential server *)

Mutating == {"rename", "delete", "move", "upload", "mkdir"}

\* the address a source address denotes: an IPv4-mapped IPv6 address is the
\* IPv4 address it maps
SourceAddress(ip) == IF ip # <<>> /\ Head(ip) = "::ffff:" THEN Tail(ip) ELSE ip

NonAdminCaller(ip) ==
    /\ SourceAddress(ip) \notin adminIps
    /\ SourceAddress(ip) # <<"127.0.0.1">>
    /\ SourceAddress(ip) # <<"::1">>

\* C2: a rename, delete, move, upload or mkdir request of a caller who is
\* not an admin is answered 403, leaves the tree as it was, and has done no
\* path resolution, no unique-name probe and no filesystem call.
C2_NonAdminDenied ==
    [][(handled' # handled /\ req'.op \in Mutating /\ NonAdminCaller(req'.ip))
        => (resp' = Forbidden /\ fs' = fs /\ work' = NoWork)]_vars

\* a guest's upload was answered 403
C2_Witness ==
    /\ req.op = "upload" /\ req.ip = Guest /\ req.path = <<"a">>
    /\ resp.status = 403

\* the directory a listing request lists is the locked folder f
ListsFolder(r, f) ==
    /\ safePath(r.path).ok
    /\ Canon(safePath(r.path).path) = pathJoin(baseDir, f.folderName)

\* C3: a listing request whose listed directory is a configured locked
\* folder is answered 401 locked:true with no entry when its pin is absent
\* or wrong, and with the folder's real listing when its pin is right.
C3_LockedListing ==
    \A f \in lockedFolders :
        (req.op = "list" /\ ListsFolder(req, f)) =>
            IF req.pin = f.pin
                THEN /\ resp.status = 200
                     /\ {e.name : e \in resp.entries} = readdir(fs, pathJoin(baseDir, f.folderName))
                ELSE resp.status = 401 /\ resp.locked /\ resp.entries = {}

\* C4: every path an admin's rename, delete, move, upload or mkdir request
\* creates, writes, moves to, moves from or removes lies within Root.
C4_ConfinedToRoot ==
    (req.op \in Mutating /\ checkIsAdmin(req.ip)) =>
        \A x \in work.touched : Under(baseDir, x)

\* '{dir}/{base} (k){ext}'
Suffixed(p, k) ==
    LET P == pathParse(p)
    IN  (IF P.dir = <<"/">> THEN P.dir ELSE P.dir \o <<"/">>)
            \o P.name \o <<" ", "(">> \o Decimal(k) \o <<")">> \o P.ext

\* p when it is not among the existing paths `at`, else the suffixed path of
\* the smallest k >= 1 that is not
FirstFree(at, p) ==
    IF p \notin at THEN p
    ELSE Suffixed(p, CHOOSE k \in 1..(Cardinality(at) + 1) :
                        /\ Suffixed(p, k) \notin at
                        /\ \A j \in 1..(k - 1) : Suffixed(p, j) \in at)

\* C5: with no concurrent writer, getUniquePath(p) is p when p does not
\* exist, else '{dir}/{base} (k){ext}' for the smallest k >= 1 whose path
\* does not exist; the path returned does not exist when it is returned.
C5_UniquePath ==
    \A i \in 1..Len(work.allocs) :
        LET a == work.allocs[i]
        IN  /\ a.result = FirstFree(a.at, a.target)
            /\ a.result \notin a.at

\* p, 'p (1)' and 'p (2)' existed and the call returned 'p (3)'
C5_Witness ==
    \E i \in 1..Len(work.allocs) :
        LET a == work.allocs[i]
        IN  /\ {a.target, Suffixed(a.target, 1), Suffixed(a.target, 2)} \subseteq a.at
            /\ a.result = Suffixed(a.target, 3)
            /\ a.result = <<"/", "d", "/", "a", "/", "f", " ", "(", "3", ")", ".", "t">>

\* C7: an admin's move of source into destination puts the source entry in
\* the destination directory under its own base name, or under the first
\* free '{base} (k){ext}' name when that one is taken; afterwards the source
\* path is gone and every other entry of the destination is as it was; a
\* move that fails answers with a failure and changes nothing.
C7_MoveIntoDestination ==
    [][(handled' # handled /\ req'.op = "move" /\ checkIsAdmin(req'.ip)) =>
        IF resp'.status = 200
        THEN LET src == Canon(safePath(req'.path).path)
                 dst == Canon(safePath(req'.arg).path)
                 landing == FirstFree(DOMAIN fs, pathJoin(dst, basename(src)))
             IN  /\ landing \in DOMAIN fs' /\ fs'[landing] = fs[src]
                 /\ dirname(landing) = dst
                 /\ src \notin DOMAIN fs'
                 /\ \A x \in DOMAIN fs :
                        (Under(dst, x) /\ ~Under(src, x)) => (x \in DOMAIN fs' /\ fs'[x] = fs[x])
        ELSE ~resp'.success /\ fs' = fs]_vars

-----------------------------------------------------------------------------
(* safePath on its own: every user path put together from at most          *)
(* MaxPathUnits of the pieces an attacker composes a path from             *)

MaxPathUnits == 4

PathUnits ==
    {<<"/">>, <<"\\">>, <<".">>, <<".", ".">>, <<"d">>, <<"2">>,
     <<"%", "2", "E">>, <<"%", "2", "F">>, <<"%">>}

UserPaths == {Flatten(u) : u \in SeqsUpTo(PathUnits, MaxPathUnits)}

InitPath ==
    /\ userPath \in UserPaths
    /\ resolved = NotResolved
    /\ fs = Tree0
    /\ IdleServer /\ IdleRace /\ IdleFormat /\ IdleSearch /\ IdleQueue

Resolve ==
    /\ resolved = NotResolved
    /\ resolved' = safePath(userPath)
    /\ UNCHANGED << userPath, fs, serverVars, raceVars, formatVars, searchVars, queueVars >>

NextPath == Resolve

SpecPath == InitPath /\ [][NextPath]_vars

\* C1: safePath(p) throws or returns Root itself or a path beneath Root by
\* whole segments, never a path under a sibling such as /d2 whose name only
\* starts with Root's name.
C1_SafePathContained ==
    (resolved # NotResolved /\ resolved.ok) => Under(baseDir, resolved.path)

-----------------------------------------------------------------------------
(* Two upload requests in flight at once (src/server.js:125-143 with       *)
(* getUniquePath, 37-46, inlined).  A handler runs until its next await:   *)
(* each fs.pathExists of the while loop and each fs.writeFile is a step of *)
(* its own, and the steps of the two requests interleave freely.           *)

Requests == {1, 2}

\* the admins' uploads into folder a: one file, one file of another name,
\* two files of one name
RaceForms ==
    {<<<<"f", ".", "t">>>>, <<<<"g", ".", "t">>>>, <<<<"f", ".", "t">>, <<"f", ".", "t">>>>}

\* the bytes of file i of request r
Buffer(r, i) == << <<"r1f1", "r1f2">>, <<"r2f1", "r2f2">> >>[r][i]

Idle == [pc |-> "idle"]

Active(u) == u.pc \in {"probe", "write"}

\* the handler up to its first await: the target of file i, about to be probed
StartFile(u, i) ==
    LET target == pathJoin(u.targetFolder, UploadName(u.names, u.files[i], i))
    IN  [u EXCEPT !.pc = "probe", !.i = i, !.parsed = pathParse(target),
                  !.finalPath = target, !.counter = 1]

InitRace ==
    /\ fs = Tree0
    /\ up = [r \in Requests |-> Idle]
    /\ overlap = FALSE
    /\ IdleServer /\ IdlePath /\ IdleFormat /\ IdleSearch /\ IdleQueue

\* request r arrives: isAdmin, safePath, JSON.parse, and the first turn of
\* the for loop up to getUniquePath's first fs.pathExists
Arrive(r) ==
    /\ up[r].pc = "idle"
    /\ \E form \in RaceForms :
        LET ip == <<"::1">>
            t == safePath(<<"a">>)
            u == [pc |-> "probe", targetFolder |-> t.path, names |-> form,
                  files |-> [i \in 1..Len(form) |-> Upl(form[i], Buffer(r, i))],
                  i |-> 1, parsed |-> pathParse(t.path), finalPath |-> <<>>,
                  counter |-> 1, wrote |-> <<>>, status |-> 0]
        IN  /\ isAdmin(ip) /\ t.ok
            /\ up' = [up EXCEPT ![r] = StartFile(u, 1)]
    /\ overlap' = (overlap \/ \E o \in Requests \ {r} : Active(up[o]))
    /\ UNCHANGED << fs, pathVars, serverVars, formatVars, searchVars, queueVars >>

\* a turn that writes without looking at the answer
ProbeTurnBlind(u, exists) == [u EXCEPT !.pc = "write"]

\* one turn of getUniquePath's while loop, given what fs.pathExists answered
ProbeTurn(u, exists) ==
    IF exists
        THEN [u EXCEPT !.finalPath = Candidate(u.parsed, u.counter), !.counter = @ + 1]
        ELSE [u EXCEPT !.pc = "write"]

ProbeStep(r) ==
    /\ up[r].pc = "probe"
    /\ up' = [up EXCEPT ![r] = ProbeTurn(up[r], pathExists(fs, up[r].finalPath))]
    /\ UNCHANGED << fs, overlap, pathVars, serverVars, formatVars, searchVars, queueVars >>

\* fs.writeFile completes; the loop goes on to the next file or the request
\* is answered
WriteStep(r) ==
    /\ up[r].pc = "write"
    /\ LET u == up[r]
           m == writeFile(fs, u.finalPath, u.files[u.i].buffer)
           w == [u EXCEPT !.wrote = Append(@, u.finalPath)]
       IN  /\ fs' = m.fs
           /\ up' = [up EXCEPT ![r] =
                        IF ~m.ok THEN [u EXCEPT !.pc = "done", !.status = 500]
                        ELSE IF u.i < Len(u.files) THEN StartFile(w, u.i + 1)
                        ELSE [w EXCEPT !.pc = "done", !.status = 200]]
    /\ UNCHANGED << overlap, pathVars, serverVars, formatVars, searchVars, queueVars >>

NextRace == \E r \in Requests : Arrive(r) \/ ProbeStep(r) \/ WriteStep(r)

SpecRace == InitRace /\ [][NextRace]_vars

RaceFiles(r) == IF up[r].pc = "idle" THEN <<>> ELSE up[r].files

\* the content of file i of request r is on disk
Present(r, i) == \E x \in DOMAIN fs : fs[x] = File(Buffer(r, i))

Answered(r) == up[r].pc = "done"

Lost(r, i) == Answered(r) /\ up[r].status = 200 /\ ~Present(r, i)

\* C6: every upload is answered with success; uploads that did not
\* interleave lose no file; when they did interleave, a content that is no
\* longer on disk was overwritten by the other request's file, written to
\* the same path after both had found that path free.
C6_UploadRace ==
    /\ \A r \in Requests : Answered(r) => up[r].status = 200
    /\ ~overlap => \A r \in Requests : \A i \in 1..Len(RaceFiles(r)) : ~Lost(r, i)
    /\ \A r \in Requests : \A i \in 1..Len(RaceFiles(r)) :
          Lost(r, i) =>
              \E o \in Requests \ {r} : \E j \in 1..Len(up[o].wrote) :
                  /\ up[o].wrote[j] = up[r].wrote[i]
                  /\ fs[up[o].wrote[j]] = File(Buffer(o, j))

\* both requests were answered with success and only one of the two uploaded
\* contents is on disk
C6_Witness ==
    /\ \A r \in Requests : Answered(r) /\ up[r].status = 200 /\ Len(up[r].files) = 1
    /\ Present(1, 1) /\ ~Present(2, 1)

-----------------------------------------------------------------------------
(* formatSize (src/server.js:48-54).  A byte count is written in base 1024, *)
(* most significant digit first, so that counts of 1024^4 and more are     *)
(* within reach of the checker's integers; every step below is exact       *)
(* integer arithmetic on those digits.                                     *)

k == 1024

sizes == <<"Bytes", "KB", "MB", "GB">>

MaxDigits == 5

DigitVals == {0, 1, 5, 512, 1023}

\* the byte counts below 1024^MaxDigits whose digits are in DigitVals
ByteCounts ==
    {<<0>>} \cup {b \in UNION {[1..n -> DigitVals] : n \in 1..MaxDigits} : b[1] # 0}

\* 1536 = 1 * 1024 + 512
Bytes1536 == <<1, 512>>

\* Math.floor(Math.log(bytes) / Math.log(k)): the number of digits after the first
FloorLog(b) == Len(b) - 1

RECURSIVE FloorScaled(_, _)
\* floor(m * 0.d1 d2 ... ) for the base-1024 fraction with digits ds
FloorScaled(m, ds) ==
    IF ds = <<>> THEN 0 ELSE (m * Head(ds) + FloorScaled(m, Tail(ds))) \div k

\* (bytes / Math.pow(k, i)).toFixed(2), in hundredths: the quotient is a
\* binary fraction, so it is never halfway between two hundredths
ToFixed2(b) == 100 * Head(b) + (FloorScaled(200, Tail(b)) + 1) \div 2

\* parseFloat(hundredths) + '': trailing zeros of the fraction dropped
NumberText(h) ==
    LET whole == Decimal(h \div 100)
        frac == h % 100
    IN  IF frac = 0 THEN whole
        ELSE IF frac % 10 = 0 THEN whole \o <<".", DigitChar(frac \div 10)>>
        ELSE whole \o <<".", DigitChar(frac \div 10), DigitChar(frac % 10)>>

\* the string number + ' ' + unit; sizes[i] past the table is undefined
formatSize(b) ==
    IF b = <<0>> THEN [number |-> <<"0">>, unit |-> "Bytes"]
    ELSE LET i == FloorLog(b)
         IN  [number |-> NumberText(ToFixed2(b)),
              unit   |-> IF i + 1 \in DOMAIN sizes THEN sizes[i + 1] ELSE "undefined"]

InitFormat ==
    /\ bytes \in ByteCounts
    /\ formatted = NotFormatted
    /\ fs = Tree0
    /\ IdleServer /\ IdlePath /\ IdleRace /\ IdleSearch /\ IdleQueue

Format ==
    /\ formatted = NotFormatted
    /\ formatted' = formatSize(bytes)
    /\ UNCHANGED << bytes, fs, pathVars, serverVars, raceVars, searchVars, queueVars >>

NextFormat == Format

SpecFormat == InitFormat /\ [][NextFormat]_vars

\* C8: formatSize(0) is '0 Bytes'; otherwise the unit is the one of
\* [Bytes, KB, MB, GB] at index floor(log_1024(b)) clamped to 3, so it is
\* GB for every b >= 1024^4; formatSize(1536) is '1.5 KB'.
C8_FormatSizeUnit ==
    formatted # NotFormatted =>
        /\ bytes = <<0>> => formatted = [number |-> <<"0">>, unit |-> "Bytes"]
        /\ bytes # <<0>> =>
              formatted.unit = sizes[(IF Len(bytes) - 1 > 3 THEN 3 ELSE Len(bytes) - 1) + 1]
        /\ bytes = Bytes1536 => formatted = [number |-> <<"1", ".", "5">>, unit |-> "KB"]

-----------------------------------------------------------------------------
(* Search.  The browser's handleSearch (src/server.js:399-430) sends the   *)
(* query to GET /api/search; the walk that answers it is described by the  *)
(* specification (section 4.4): depth first from Root, into every          *)
(* directory, emitting each entry whose name contains the query without    *)
(* regard to case, with its path relative to Root in forward-slash form.   *)

MaxQueryLen == 2

QueryChars == {"r", "E", "p", " "}

Queries ==
    {<<"r", "e", "p", "o", "r", "t">>, <<"R", "E", "P", "O", "R", "T">>, <<"r", "e", "a", "d">>, <<".", "T">>, <<" ", "r", "e", "p", "o", "r", "t">>}
        \cup (SeqsUpTo(QueryChars, MaxQueryLen) \ {<<>>})

\* the tree of the specification's example
ExampleTree ==
    MkTree({<<"/">>, <<"/", "d">>, <<"/", "d", "/", "a">>, <<"/", "d", "/", "b">>, <<"/", "d", "/", "c">>},
           {<<<<"/", "d", "/", "a", "/", "r", "e", "p", "o", "r", "t", ".", "p", "d", "f">>, "x1">>, <<<<"/", "d", "/", "b", "/", "R", "e", "p", "o", "r", "t", "2", "0", "2", "4", ".", "t", "x", "t">>, "x2">>,
            <<<<"/", "d", "/", "c", "/", "r", "e", "a", "d", "m", "e", ".", "t", "x", "t">>, "x3">>})

\* a tree whose locked folder s holds matching entries, two levels deep
LockedTree ==
    MkTree({<<"/">>, <<"/", "d">>, <<"/", "d", "/", "s">>, <<"/", "d", "/", "s", "/", "R", "e", "p">>, <<"/", "d", "/", "o">>, <<"/", "d", "2">>},
           {<<<<"/", "d", "/", "s", "/", "R", "e", "p", "/", "p", "e", "r", ".", "t">>, "x1">>, <<<<"/", "d", "/", "s", "/", "k">>, "x2">>, <<<<"/", "d", "/", "o", "/", "r", "E">>, "x3">>,
            <<<<"/", "d", "2", "/", "r", "e", "p">>, "x4">>})

SearchTrees == {ExampleTree, LockedTree, Tree1}

RECURSIVE Trim(_)
\* q.trim(), for the blank that can occur in a query
Trim(s) ==
    IF s # <<>> /\ Head(s) = " " THEN Trim(Tail(s))
    ELSE IF s # <<>> /\ Last(s) = " " THEN Trim(Front(s))
    ELSE s

\* s.includes(sub)
Includes(s, sub) ==
    \E i \in 0..(Len(s) - Len(sub)) : SubSeq(s, i + 1, i + Len(sub)) = sub

RECURSIVE searchTreeMatchedOnly(_, _, _, _)
\* a walk that descends only into the directories whose name matched
searchTreeMatchedOnly(F, dir, rel, query) ==
    UNION {
        LET full == pathJoin(dir, n)
            relPath == SlashForm(pathJoin(rel, n))
        IN  IF ~Includes(toLowerCase(n), toLowerCase(query)) THEN {}
            ELSE {[name |-> n, path |-> relPath, isFolder |-> IsDir(F, full)]}
                     \cup (IF IsDir(F, full)
                            THEN searchTreeMatchedOnly(F, full, relPath, query) ELSE {})
        : n \in readdir(F, dir)}

RECURSIVE searchTree(_, _, _, _)
\* the entries beneath dir (whose path relative to Root is rel) that match
searchTree(F, dir, rel, query) ==
    UNION {
        LET full == pathJoin(dir, n)
            relPath == SlashForm(pathJoin(rel, n))
            here == IF Includes(toLowerCase(n), toLowerCase(query))
                    THEN {[name |-> n, path |-> relPath, isFolder |-> IsDir(F, full)]}
                    ELSE {}
        IN  IF IsDir(F, full) THEN here \cup searchTree(F, full, relPath, query) ELSE here
        : n \in readdir(F, dir)}

InitSearch ==
    /\ fs \in SearchTrees
    /\ q \in Queries
    /\ results = NoResults
    /\ IdleServer /\ IdlePath /\ IdleRace /\ IdleFormat /\ IdleQueue

\* handleSearch(q) with a query that is not blank, and the server's answer
Search ==
    /\ ~results.done
    /\ Trim(q) # <<>>
    /\ results' = [done |-> TRUE, entries |-> searchTree(fs, baseDir, <<>>, q)]
    /\ UNCHANGED << q, fs, pathVars, serverVars, raceVars, formatVars, queueVars >>

NextSearch == Search

SpecSearch == InitSearch /\ [][NextSearch]_vars

\* name contains query, letters compared without regard to case
ContainsIgnoringCase(name, query) ==
    \E i \in 0..(Len(name) - Len(query)) :
        \A j \in 1..Len(query) : LowerOf(name[i + j]) = LowerOf(query[j])

\* the path of x relative to Root
RelativeToRoot(x) == SubSeq(x, Len(baseDir) + 2, Len(x))

\* C9: a search returns exactly the entries beneath Root, at any depth and
\* inside locked folders too, whose name contains the query as a
\* case-insensitive substring, each with its path relative to Root; over
\* a/report.pdf, b/Report2024.txt, c/readme.txt the query 'report' returns
\* the first two.
C9_SearchResults ==
    results.done =>
        /\ {e.path : e \in results.entries} =
               {RelativeToRoot(x) : x \in {y \in DOMAIN fs :
                    /\ Under(baseDir, y) /\ y # baseDir
                    /\ ContainsIgnoringCase(basename(y), q)}}
        /\ \A e \in results.entries :
               /\ e.name = basename(e.path)
               /\ e.isFolder = (fs[baseDir \o <<"/">> \o e.path].kind = "dir")
        /\ (fs = ExampleTree /\ q = <<"r", "e", "p", "o", "r", "t">>) =>
               {e.path : e \in results.entries} = {<<"a", "/", "r", "e", "p", "o", "r", "t", ".", "p", "d", "f">>, <<"b", "/", "R", "e", "p", "o", "r", "t", "2", "0", "2", "4", ".", "t", "x", "t">>}

\* the example's search was answered with its two entries
C9_Witness ==
    /\ results.done
    /\ fs = ExampleTree /\ q = <<"r", "e", "p", "o", "r", "t">> /\ Cardinality(results.entries) = 2

-----------------------------------------------------------------------------
(* The browser's upload queue (src/server.js:331-394).  Files are numbered *)
(* in the order the user hands them over; dom is the list of name inputs   *)
(* q-name-i as updateQueueUI last rendered it.                             *)

MaxDrops == 3

\* f.name of file number f
FileName(f) == <<"n1", "n2", "n3", "n4", "n5", "n6">>[f]

\* what the user may type into a name input
EditValues == {"e"}

\* updateQueueUI: the inputs are rebuilt from the queue when it is not
\* empty; an empty queue only hides the list
updateQueueUI(queue, shown) ==
    IF Len(queue) > 0
        THEN [i \in 1..Len(queue) |-> [file |-> queue[i], value |-> FileName(queue[i])]]
        ELSE shown

Range(s) == {s[i] : i \in 1..Len(s)}

InitQueue ==
    /\ queueFiles = <<>>
    /\ dom = <<>>
    /\ clientIsAdmin \in BOOLEAN
    /\ btnDisabled = FALSE
    /\ inflight = NoFetch
    /\ dropped = 0
    /\ discarded = {}
    /\ sentOk = {}
    /\ fs = Tree0
    /\ IdleServer /\ IdlePath /\ IdleRace /\ IdleFormat /\ IdleSearch

serverSide == << fs, pathVars, serverVars, raceVars, formatVars, searchVars >>

\* processFiles(files): n more files are dropped or picked
processFiles(n) ==
    /\ clientIsAdmin
    /\ dropped + n <= MaxDrops
    /\ LET newFiles == [i \in 1..n |-> dropped + i]
       IN  /\ queueFiles' = queueFiles \o newFiles
           /\ dom' = updateQueueUI(queueFiles \o newFiles, dom)
    /\ dropped' = dropped + n
    /\ UNCHANGED << clientIsAdmin, btnDisabled, inflight, discarded, sentOk, serverSide >>

\* queueFiles.splice(index, 1)
Splice(queue, index) ==
    SubSeq(queue, 1, index - 1) \o SubSeq(queue, index + 1, Len(queue))

\* removeFromQueue(index), from the x beside a rendered input
removeFromQueue(index) ==
    /\ index \in 1..Len(queueFiles)
    /\ queueFiles' = Splice(queueFiles, index)
    /\ dom' = updateQueueUI(Splice(queueFiles, index), dom)
    /\ UNCHANGED << clientIsAdmin, btnDisabled, inflight, dropped, discarded, sentOk, serverSide >>

\* clearQueue(), from its button
clearQueue ==
    /\ queueFiles' = <<>>
    /\ dom' = updateQueueUI(<<>>, dom)
    /\ UNCHANGED << clientIsAdmin, btnDisabled, inflight, dropped, discarded, sentOk, serverSide >>

\* the user edits the name in input q-name-index
EditName(index, v) ==
    /\ index \in 1..Len(queueFiles)
    /\ dom[index].value # v
    /\ dom' = [dom EXCEPT ![index].value = v]
    /\ UNCHANGED << queueFiles, clientIsAdmin, btnDisabled, inflight, dropped, discarded,
                    sentOk, serverSide >>

\* the form startFinalUpload posts: the files of the queue, the values of
\* the inputs, and (for the properties) the file each input was rendered for
UploadForm(queue, shown) ==
    [active |-> TRUE,
     files  |-> queue,
     names  |-> [i \in 1..Len(queue) |-> shown[i].value],
     owners |-> [i \in 1..Len(queue) |-> shown[i].file]]

\* startFinalUpload() up to its await fetch; the button is disabled meanwhile
startFinalUpload ==
    /\ ~btnDisabled
    /\ Len(queueFiles) # 0
    /\ inflight' = UploadForm(queueFiles, dom)
    /\ btnDisabled' = TRUE
    /\ UNCHANGED << queueFiles, dom, clientIsAdmin, dropped, discarded, sentOk, serverSide >>

\* the rest of startFinalUpload once the server has answered (ok: res.ok)
uploadAnswered(ok) ==
    /\ inflight.active
    /\ IF ok
          THEN /\ queueFiles' = <<>>
               /\ dom' = updateQueueUI(<<>>, dom)
               /\ discarded' = discarded \cup Range(queueFiles)
               /\ sentOk' = sentOk \cup Range(inflight.files)
          ELSE UNCHANGED << queueFiles, dom, discarded, sentOk >>
    /\ inflight' = NoFetch
    /\ btnDisabled' = FALSE
    /\ UNCHANGED << clientIsAdmin, dropped, serverSide >>

NextQueue ==
    \/ \E n \in 1..2 : processFiles(n)
    \/ \E i \in 1..MaxDrops : removeFromQueue(i)
    \/ clearQueue
    \/ \E i \in 1..MaxDrops, v \in EditValues : EditName(i, v)
    \/ startFinalUpload
    \/ \E ok \in BOOLEAN : uploadAnswered(ok)

SpecQueue == InitQueue /\ [][NextQueue]_vars

\* C10: the names sent are as many as the files sent and names[i] is the
\* name of files[i]; a failed upload leaves the queue as it was; and every
\* file startFinalUpload removes from the queue was part of a request the
\* server answered ok.
C10_QueueKeepsUnsentFiles ==
    [][/\ inflight'.active =>
            /\ Len(inflight'.names) = Len(inflight'.files)
            /\ inflight'.owners = inflight'.files
       /\ (inflight.active /\ ~inflight'.active /\ sentOk' = sentOk) =>
            queueFiles' = queueFiles
       /\ discarded' \subseteq sentOk']_vars

=============================================================================
